---- MODULE Spec2Model ----
(***************************************************************************)
(* Strava agent: the comparison and recommendation tools of                *)
(* src/src/beeai_agents/strava_custom_tools.py.                            *)
(*                                                                         *)
(* Python floats are modelled as exact rationals <<n, d>> with d > 0, kept *)
(* in lowest terms.  A tool's output text is modelled by the record of the *)
(* values and labels the text is built from.                               *)
(***************************************************************************)
EXTENDS Integers, Sequences, FiniteSets, TLC

VARIABLES activities, pc, out, access_token, call, shown, earlier, auth, turn

vars == <<activities, pc, out, access_token, call, shown, earlier, auth, turn>>

\* Longest list of activities the API returns in the model.
MaxActs == 5

-----------------------------------------------------------------------------
(* Exact arithmetic standing for Python's float arithmetic.                *)

Abs(n) == IF n < 0 THEN -n ELSE n

Min(a, b) == IF a < b THEN a ELSE b

Max(a, b) == IF a > b THEN a ELSE b

RECURSIVE GCD(_, _)
GCD(a, b) == IF b = 0 THEN a ELSE GCD(b, a % b)

Reduce(n, d, g) == <<n \div g, d \div g>>

\* the rational n / d (d > 0) in lowest terms
Norm(n, d) == Reduce(n, d, GCD(Abs(n), d))

Zero == <<0, 1>>

Whole(n) == <<n, 1>>

RAdd(x, y) == Norm(x[1] * y[2] + y[1] * x[2], x[2] * y[2])

RSub(x, y) == Norm(x[1] * y[2] - y[1] * x[2], x[2] * y[2])

RMul(x, y) == Norm(x[1] * y[1], x[2] * y[2])

\* x / y for y # 0
RDiv(x, y) ==
  IF y[1] > 0 THEN Norm(x[1] * y[2], x[2] * y[1])
  ELSE Norm(-(x[1] * y[2]), x[2] * (-y[1]))

RLt(x, y) == x[1] * y[2] < y[1] * x[2]

RGt(x, y) == RLt(y, x)

RAbs(x) == <<Abs(x[1]), x[2]>>

\* x + y, not reduced
RawAdd(x, y) == <<x[1] * y[2] + y[1] * x[2], x[2] * y[2]>>

RECURSIVE RawSum(_, _)
RawSum(s, i) == IF i = 0 THEN Zero ELSE RawAdd(s[i], RawSum(s, i - 1))

Lowest(x) == Norm(x[1], x[2])

\* sum(s)
RSum(s) == Lowest(RawSum(s, Len(s)))

RECURSIVE RMax(_)
RMax(s) ==
  IF Len(s) = 1 THEN s[1]
  ELSE LET m == RMax(Tail(s)) IN IF RGt(s[1], m) THEN s[1] ELSE m


-----------------------------------------------------------------------------
(* The activities the API can return.  distance is in metres, moving_time  *)
(* in seconds, average_speed in metres per second; average_heartrate 0     *)
(* stands for a record without that key (run.get(..., 0)).                 *)

Date(y, m, d) == [y |-> y, m |-> m, d |-> d]

Activity(t, dist, time, hr, speed, date) ==
  [type |-> t, distance |-> dist, moving_time |-> time,
   average_heartrate |-> hr, average_speed |-> speed,
   start_date_local |-> date]

\* 10 km at 5:00 min/km
BaseRun == Activity("Run", 10000, 3000, 150, <<10, 3>>, Date(2026, 1, 29))

\* 10.5 km at 4:54 min/km, lower heart rate
BetterRun == Activity("Run", 10500, 3087, 147, <<500, 147>>, Date(2026, 2, 1))

\* 9.5 km at 5:06 min/km, higher heart rate
WorseRun == Activity("Run", 9500, 2907, 153, <<500, 153>>, Date(2026, 1, 15))

\* 10 km at 4:50 min/km, recorded without a heart-rate strap
FastRun == Activity("Run", 10000, 2900, 0, <<100, 29>>, Date(2026, 2, 1))

\* a run whose distance was not recorded (treadmill), speed from the watch
ZeroDistRun == Activity("Run", 0, 1800, 150, <<3, 1>>, Date(2026, 1, 15))

Ride == Activity("Ride", 30000, 3600, 140, <<25, 3>>, Date(2026, 1, 29))

Activities == {BaseRun, BetterRun, WorseRun, FastRun, ZeroDistRun, Ride}

Dates == {a.start_date_local : a \in Activities}

SeqsUpTo(S, n) == UNION {[1..k -> S] : k \in 0..n}

-----------------------------------------------------------------------------
(* Per-activity derived metrics (the loop bodies of the three tools).      *)

distance_km(run) == Norm(run.distance, 1000)

time_min(run) == Norm(run.moving_time, 60)

\* pace_min_km that falls back on average_speed when there is no distance
pace_from_speed(run) ==
  IF RGt(distance_km(run), Zero) THEN RDiv(time_min(run), distance_km(run))
  ELSE IF run.average_speed[1] > 0
       THEN RDiv(Whole(60), RMul(run.average_speed, Norm(36, 10)))
       ELSE Zero

pace_min_km(run) ==
  IF RGt(distance_km(run), Zero) THEN RDiv(time_min(run), distance_km(run))
  ELSE Zero

avg_hr(run) == Whole(run.average_heartrate)

speed_kmh(run) == RMul(run.average_speed, Norm(36, 10))

Positive(x) == RGt(x, Zero)

\* the lists the loop appends to, each only with the values > 0
Paces(runs) == SelectSeq([i \in DOMAIN runs |-> pace_min_km(runs[i])], Positive)

Distances(runs) == SelectSeq([i \in DOMAIN runs |-> distance_km(runs[i])], Positive)

HeartRates(runs) == SelectSeq([i \in DOMAIN runs |-> avg_hr(runs[i])], Positive)

Speeds(runs) == SelectSeq([i \in DOMAIN runs |-> speed_kmh(runs[i])], Positive)

IsRun(a) == a.type = "Run"

\* FilterRuns that cuts the list only while StravaAuth holds no token
FilterRunsOnceCut(acts, num_sessions) ==
  IF access_token.StravaAuth = "None"
  THEN SubSeq(SelectSeq(acts, IsRun), 1,
              Min(num_sessions, Len(SelectSeq(acts, IsRun))))
  ELSE SelectSeq(acts, IsRun)

\* FilterRuns that cuts the fetched list before it filters by type
FilterRunsCutFirst(acts, num_sessions) ==
  SelectSeq(SubSeq(acts, 1, Min(num_sessions, Len(acts))), IsRun)

\* [a for a in activities if a.get('type') == 'Run'][:num_sessions]
FilterRuns(acts, num_sessions) ==
  LET all == SelectSeq(acts, IsRun)
  IN  SubSeq(all, 1, Min(num_sessions, Len(all)))

-----------------------------------------------------------------------------
(* Windowed aggregation and classification of CompareRunningSessions.      *)

WindowSize == 3

PaceBand == 2

DistBand == 5

HrBand == 2

\* s[:3]
First3(s) == SubSeq(s, 1, Min(WindowSize, Len(s)))

\* Last3 that never reaches back to the first entry
Last3Apart(s) == SubSeq(s, Max(2, Len(s) - WindowSize + 1), Len(s))

\* s[-3:]
Last3(s) == SubSeq(s, Max(1, Len(s) - WindowSize + 1), Len(s))

\* sum(s[:3]) / min(3, len(s))
RecentAvg(s) == RDiv(RSum(First3(s)), Whole(Min(WindowSize, Len(s))))

\* OlderAvg over the entries that remain once the first three are set aside
OlderAvgRemaining(s) ==
  IF Len(s) <= WindowSize THEN RecentAvg(s)
  ELSE RDiv(RSum(Last3(SubSeq(s, WindowSize + 1, Len(s)))),
            Whole(Min(WindowSize, Len(s) - WindowSize)))

\* sum(s[-3:]) / min(3, len(s[-3:]))
OlderAvg(s) == RDiv(RSum(Last3(s)), Whole(Min(WindowSize, Len(Last3(s)))))

\* ((new - old) / old) * 100, for old > 0
PercentChange(new, old) ==
  Norm((new[1] * old[2] - old[1] * new[2]) * 100, new[2] * old[1])

\* PaceLabel with the band's edges counted as change
PaceLabelInclusive(pace_improvement) ==
  IF ~RLt(pace_improvement, Whole(PaceBand)) THEN "IMPROVEMENT"
  ELSE IF ~RGt(pace_improvement, Whole(-PaceBand)) THEN "DECLINE"
  ELSE "STABLE"

PaceLabel(pace_improvement) ==
  IF RGt(pace_improvement, Whole(PaceBand)) THEN "IMPROVEMENT"
  ELSE IF RLt(pace_improvement, Whole(-PaceBand)) THEN "DECLINE"
  ELSE "STABLE"

\* DistLabel judged with the pace band
DistLabelNarrow(dist_change) ==
  IF RGt(dist_change, Whole(PaceBand)) THEN "INCREASE"
  ELSE IF RLt(dist_change, Whole(-PaceBand)) THEN "REDUCTION"
  ELSE "STABLE"

DistLabel(dist_change) ==
  IF RGt(dist_change, Whole(DistBand)) THEN "INCREASE"
  ELSE IF RLt(dist_change, Whole(-DistBand)) THEN "REDUCTION"
  ELSE "STABLE"

\* HrLabel that takes a rising heart rate for the improvement
HrLabelRising(hr_change) ==
  IF RGt(hr_change, Whole(HrBand)) THEN "IMPROVEMENT"
  ELSE IF RLt(hr_change, Whole(-HrBand)) THEN "INCREASE"
  ELSE "STABLE"

HrLabel(hr_change) ==
  IF RLt(hr_change, Whole(-HrBand)) THEN "IMPROVEMENT"
  ELSE IF RGt(hr_change, Whole(HrBand)) THEN "INCREASE"
  ELSE "STABLE"

NoSection == [present |-> FALSE, recent |-> Zero, older |-> Zero,
              change |-> Zero, label |-> "none"]

Section(recent, older, change, label) ==
  [present |-> TRUE, recent |-> recent, older |-> older,
   change |-> change, label |-> label]

MinCompareValues == 2

\* ((older_pace_avg - recent_pace_avg) / older_pace_avg) * 100
PaceImprovement(recent, older) ==
  Norm((older[1] * recent[2] - recent[1] * older[2]) * 100, recent[2] * older[1])

\* the label lines of the three blocks
PaceJudged(recent, older, pace_improvement) ==
  Section(recent, older, pace_improvement, PaceLabel(pace_improvement))

DistJudged(recent, older, dist_change) ==
  Section(recent, older, dist_change, DistLabel(dist_change))

HrJudged(recent, older, hr_change) ==
  Section(recent, older, hr_change, HrLabel(hr_change))

PaceCompared(recent_pace_avg, older_pace_avg) ==
  PaceJudged(recent_pace_avg, older_pace_avg,
             PaceImprovement(recent_pace_avg, older_pace_avg))

DistCompared(recent_dist_avg, older_dist_avg) ==
  DistJudged(recent_dist_avg, older_dist_avg,
             PercentChange(recent_dist_avg, older_dist_avg))

HrCompared(recent_hr_avg, older_hr_avg) ==
  HrJudged(recent_hr_avg, older_hr_avg,
           PercentChange(recent_hr_avg, older_hr_avg))

\* if len(paces) >= 2: the pace block
PaceSection(paces) ==
  IF Len(paces) >= MinCompareValues
  THEN PaceCompared(RecentAvg(paces), OlderAvg(paces))
  ELSE NoSection

\* if len(distances) >= 2: the distance block
DistSection(distances) ==
  IF Len(distances) >= MinCompareValues
  THEN DistCompared(RecentAvg(distances), OlderAvg(distances))
  ELSE NoSection

\* HrSection that compares from a single value on
HrSectionFromOne(heart_rates) ==
  IF Len(heart_rates) >= 1
  THEN HrCompared(RecentAvg(heart_rates), OlderAvg(heart_rates))
  ELSE NoSection

\* if len(heart_rates) >= 2: the heart-rate block
HrSection(heart_rates) ==
  IF Len(heart_rates) >= MinCompareValues
  THEN HrCompared(RecentAvg(heart_rates), OlderAvg(heart_rates))
  ELSE NoSection

Bit(b) == IF b THEN 1 ELSE 0

\* the three "improvements += 1" tests of the overall assessment
\* (a section is present exactly when its list has >= 2 values, and holds
\* the pace_improvement / dist_change / hr_change its block computed)
CompareImprovements(pace, distance, heart_rate) ==
    Bit(pace.present /\ RGt(pace.change, Whole(PaceBand)))
  + Bit(distance.present /\ RGt(distance.change, Whole(DistBand)))
  + Bit(heart_rate.present /\ RLt(heart_rate.change, Whole(-HrBand)))

ExcellentAt == 2

\* CompareVerdict that asks for more than two improvements
CompareVerdictStrict(improvements) ==
  IF improvements > ExcellentAt THEN "EXCELLENT"
  ELSE IF improvements >= 1 THEN "GOOD"
  ELSE "STAY CONSISTENT"

CompareVerdict(improvements) ==
  IF improvements >= ExcellentAt THEN "EXCELLENT"
  ELSE IF improvements = 1 THEN "GOOD"
  ELSE "STAY CONSISTENT"

-----------------------------------------------------------------------------
(* Tool results.  Every result is a StringToolOutput; kind tells which     *)
(* return statement produced it.                                           *)

NoDate == Date(0, 0, 0)

Blank ==
  [tool |-> "none", kind |-> "none", found |-> 0, date |-> NoDate,
   num_sessions |-> 0, goal |-> "none", date1 |-> NoDate, date2 |-> NoDate,
   paces |-> <<>>, distances |-> <<>>, heart_rates |-> <<>>, speeds |-> <<>>,
   pace |-> NoSection, distance |-> NoSection, heart_rate |-> NoSection,
   improvements |-> 0, verdict |-> "none",
   dist_indicator |-> "none", pace_indicator |-> "none",
   speed_indicator |-> "none", hr_indicator |-> "none",
   speed_change |-> Zero,
   avg_distance |-> Zero, max_distance |-> Zero, avg_pace |-> Zero,
   avg_hr |-> Zero, avg_weekly_runs |-> Zero, weeks |-> {},
   level |-> "none", plan |-> [focus |-> "none", week |-> "none"],
   zones |-> FALSE, divisors |-> {}, e |-> "none"]

\* except Exception as e: return StringToolOutput(f"Error ...: {e}")
ErrorOutput(tool) ==
  [Blank EXCEPT !.tool = tool, !.kind = "error", !.e = "RequestException"]

\* the output of a run of the tool that divided by divisors: the first
\* division by 0 raises ZeroDivisionError, which "except Exception" turns
\* into the error text
Divided(tool, divisors, o) ==
  IF Zero \in divisors
  THEN [Blank EXCEPT !.tool = tool, !.kind = "error", !.divisors = divisors,
                     !.e = "ZeroDivisionError"]
  ELSE [o EXCEPT !.divisors = divisors]

\* PaceDivisors without the test of the distance
PaceDivisorsUnguarded(runs) == {distance_km(runs[i]) : i \in DOMAIN runs}

\* (time_min / distance_km) if distance_km > 0 else 0: the divisors
PaceDivisors(runs) ==
  {distance_km(runs[i]) : i \in {j \in DOMAIN runs : Positive(distance_km(runs[j]))}}

\* the window counts min(3, len(s)) and min(3, len(s[-3:])) of a block
WindowCounts(s) ==
  {Whole(Min(WindowSize, Len(s))), Whole(Min(WindowSize, Len(Last3(s))))}

\* the divisors of the block of a metric, entered if len(s) >= 2: the two
\* counts, then the older mean
WindowDivisors(s) ==
  IF Len(s) < MinCompareValues THEN {}
  ELSE IF Zero \in WindowCounts(s) THEN WindowCounts(s)
  ELSE WindowCounts(s) \cup {OlderAvg(s)}

\* "At least N running sessions are needed ... Only {len(runs)} sessions found."
InsufficientOutput(tool, runs) ==
  [Blank EXCEPT !.tool = tool, !.kind = "insufficient", !.found = Len(runs)]

MinCompareRuns == 2

\* the overall assessment and the returned text
CompareAssessed(found, paces, distances, heart_rates, speeds, pace, distance, heart_rate, improvements) ==
  [Blank EXCEPT
     !.tool = "CompareRunningSessions", !.kind = "report", !.found = found,
     !.paces = paces, !.distances = distances,
     !.heart_rates = heart_rates, !.speeds = speeds,
     !.pace = pace, !.distance = distance, !.heart_rate = heart_rate,
     !.improvements = improvements,
     !.verdict = CompareVerdict(improvements)]

\* the performance analysis over the collected lists
CompareAnalysed(found, paces, distances, heart_rates, speeds, pace, distance, heart_rate) ==
  CompareAssessed(found, paces, distances, heart_rates, speeds,
                  pace, distance, heart_rate,
                  CompareImprovements(pace, distance, heart_rate))

CompareCollected(found, paces, distances, heart_rates, speeds) ==
  CompareAnalysed(found, paces, distances, heart_rates, speeds,
                  PaceSection(paces), DistSection(distances),
                  HrSection(heart_rates))

\* the body of _run from "if len(runs) < 2" on
CompareRuns(runs) ==
  IF Len(runs) < MinCompareRuns
  THEN InsufficientOutput("CompareRunningSessions", runs)
  ELSE CompareCollected(Len(runs), Paces(runs), Distances(runs),
                        HeartRates(runs), Speeds(runs))

\* the divisors of CompareRunningSessionsTool._run
CompareDivisors(runs) ==
  IF Len(runs) < MinCompareRuns THEN {}
  ELSE PaceDivisors(runs) \cup WindowDivisors(Paces(runs))
       \cup WindowDivisors(Distances(runs)) \cup WindowDivisors(HeartRates(runs))

\* CompareRunningSessionsTool._run after the response has arrived
CompareRunningSessions(acts, num_sessions) ==
  Divided("CompareRunningSessions",
          CompareDivisors(FilterRuns(acts, num_sessions)),
          CompareRuns(FilterRuns(acts, num_sessions)))

-----------------------------------------------------------------------------
(* CompareSpecificRuns.                                                    *)

\* run.get('start_date_local', '')[:10]: the date without the time of day
RunDate(run) == run.start_date_local

\* the loop "for run in runs": the last run of that date, or 0 for None
RECURSIVE LastOn(_, _, _)
LastOn(runs, date, i) ==
  IF i = 0 THEN 0
  ELSE IF RunDate(runs[i]) = date THEN i ELSE LastOn(runs, date, i - 1)

FindRun(runs, date) == LastOn(runs, date, Len(runs))

\* "No running session found on {date}"
NotFoundOutput(date) ==
  [Blank EXCEPT !.tool = "CompareSpecificRuns", !.kind = "notfound",
                !.date = date]

\* ((b - a) / a * 100) if a > 0 else 0
GuardedChange(a, b) == IF RGt(a, Zero) THEN PercentChange(b, a) ELSE Zero

\* IndicatorUp with the stable band of the pace analysis around 0
IndicatorUpBanded(change) ==
  IF RGt(change, Whole(PaceBand)) THEN "improved"
  ELSE IF RLt(change, Whole(-PaceBand)) THEN "warning" ELSE "same"

\* "OK" if change > 0 else "WARN" if change < 0 else "SAME", good = up
IndicatorUp(change) ==
  IF RGt(change, Zero) THEN "improved"
  ELSE IF RLt(change, Zero) THEN "warning" ELSE "same"

\* the heart-rate indicator: good = down
IndicatorDown(change) ==
  IF RLt(change, Zero) THEN "improved"
  ELSE IF RGt(change, Zero) THEN "warning" ELSE "same"

SpecificDistLabel(dist_change) ==
  IF RGt(dist_change, Whole(DistBand)) THEN "INCREASE"
  ELSE IF RLt(dist_change, Whole(-DistBand)) THEN "REDUCTION"
  ELSE "SIMILAR"

SpecificVerdict(improvements) ==
  IF improvements >= ExcellentAt THEN "EXCELLENT"
  ELSE IF improvements = 1 THEN "PROGRESS"
  ELSE "CONTINUE"

\* extract_metrics(run)
extract_metrics(run) ==
  [distance_km |-> distance_km(run), time_min |-> time_min(run),
   pace_min_km |-> pace_min_km(run), avg_hr |-> avg_hr(run),
   speed_kmh |-> speed_kmh(run)]

\* the detailed analysis, the overall assessment and the returned text
SpecificAssessed(pace, distance, heart_rate, speed_change, improvements) ==
  [Blank EXCEPT
     !.tool = "CompareSpecificRuns", !.kind = "report", !.found = 2,
     !.pace = pace, !.distance = distance, !.heart_rate = heart_rate,
     !.dist_indicator = IndicatorUp(distance.change),
     !.pace_indicator = IF pace.present THEN IndicatorUp(pace.change)
                        ELSE "none",
     !.speed_change = speed_change,
     !.speed_indicator = IndicatorUp(speed_change),
     !.hr_indicator = IF heart_rate.present THEN IndicatorDown(heart_rate.change)
                      ELSE "none",
     !.improvements = improvements,
     !.verdict = SpecificVerdict(improvements)]

\* improvements += 1 in the IMPROVEMENT / INCREASE branches
SpecificImprovements(pace, distance, heart_rate) ==
    Bit(pace.present /\ RGt(pace.change, Whole(PaceBand)))
  + Bit(RGt(distance.change, Whole(DistBand)))
  + Bit(heart_rate.present /\ RLt(heart_rate.change, Whole(-HrBand)))

SpecificAnalysed(pace, distance, heart_rate, speed_change) ==
  SpecificAssessed(pace, distance, heart_rate, speed_change,
                   SpecificImprovements(pace, distance, heart_rate))

SpecificDistJudged(new, old, dist_change) ==
  Section(new, old, dist_change, SpecificDistLabel(dist_change))

\* the comparison of metrics1 with metrics2: a section holds session 2's
\* value as recent and session 1's as older
SpecificCompared(metrics1, metrics2) ==
  SpecificAnalysed(
    IF Positive(metrics1.pace_min_km) /\ Positive(metrics2.pace_min_km)
    THEN PaceCompared(metrics2.pace_min_km, metrics1.pace_min_km)
    ELSE NoSection,
    SpecificDistJudged(metrics2.distance_km, metrics1.distance_km,
                       GuardedChange(metrics1.distance_km, metrics2.distance_km)),
    IF Positive(metrics1.avg_hr) /\ Positive(metrics2.avg_hr)
    THEN HrCompared(metrics2.avg_hr, metrics1.avg_hr)
    ELSE NoSection,
    GuardedChange(metrics1.speed_kmh, metrics2.speed_kmh))

SpecificReport(run1, run2) ==
  SpecificCompared(extract_metrics(run1), extract_metrics(run2))

\* SpecificFound that looks at the second date first
SpecificFoundSecondFirst(runs, run1, run2, date1, date2) ==
  IF run2 = 0 THEN NotFoundOutput(date2)
  ELSE IF run1 = 0 THEN NotFoundOutput(date1)
  ELSE SpecificReport(runs[run1], runs[run2])

\* the search by date and the two "not found" returns
SpecificFound(runs, run1, run2, date1, date2) ==
  IF run1 = 0 THEN NotFoundOutput(date1)
  ELSE IF run2 = 0 THEN NotFoundOutput(date2)
  ELSE SpecificReport(runs[run1], runs[run2])

SpecificRuns(runs, date1, date2) ==
  SpecificFound(runs, FindRun(runs, date1), FindRun(runs, date2), date1, date2)

\* CompareSpecificRunsTool._run after the response has arrived
CompareSpecificRuns(acts, date1, date2) ==
  SpecificRuns(SelectSeq(acts, IsRun), date1, date2)

-----------------------------------------------------------------------------
(* RecommendTraining.                                                      *)

MinRecommendRuns == 5

BeginnerBelow == 2

IntermediateBelow == 4

\* week = date[:7], the "YYYY-MM" prefix of the date
WeekKey(run) == <<RunDate(run).y, RunDate(run).m>>

\* the keys of the weekly_frequency dict
WeeklyKeys(runs) == {WeekKey(runs[i]) : i \in 1..Len(runs)}

\* sum(weekly_frequency.values()) / len(weekly_frequency)
AvgWeeklyRuns(runs) ==
  IF runs # <<>>
  THEN RDiv(Whole(Len(runs)), Whole(Cardinality(WeeklyKeys(runs))))
  ELSE Zero

\* sum(xs) / len(xs) if xs else 0
MeanOrZero(xs) == IF xs # <<>> THEN RDiv(RSum(xs), Whole(Len(xs))) ELSE Zero

\* Level whose bounds belong to the lower bucket
LevelInclusive(avg_weekly_runs) ==
  IF ~RGt(avg_weekly_runs, Whole(BeginnerBelow)) THEN "beginner"
  ELSE IF ~RGt(avg_weekly_runs, Whole(IntermediateBelow)) THEN "intermediate"
  ELSE "advanced"

Level(avg_weekly_runs) ==
  IF RLt(avg_weekly_runs, Whole(BeginnerBelow)) THEN "beginner"
  ELSE IF RLt(avg_weekly_runs, Whole(IntermediateBelow)) THEN "intermediate"
  ELSE "advanced"

Goals == {"improve_performance", "increase_distance", "improve_pace",
          "build_endurance"}

\* the if/elif chain on goal: which _recommend_* helper writes the plan
PlanFocus(goal) ==
  IF goal = "improve_pace" THEN "pace"
  ELSE IF goal = "increase_distance" THEN "distance"
  ELSE IF goal = "build_endurance" THEN "endurance"
  ELSE "general"

\* each helper's if/elif/else on level: the "Typical week" block emitted
PlanOf(goal, level) ==
  [focus |-> PlanFocus(goal),
   week |-> IF level = "beginner" THEN "3-4 days"
            ELSE IF level = "intermediate" THEN "4-5 days" ELSE "5-6 days"]

\* the level, the plan and the returned text
RecommendLevelled(found, goal, paces, distances, heart_rates, avg_distance, avg_pace, avg_hr_all, weeks, avg_weekly_runs, level) ==
  [Blank EXCEPT
     !.tool = "RecommendTraining", !.kind = "report", !.found = found,
     !.paces = paces, !.distances = distances, !.heart_rates = heart_rates,
     !.avg_distance = avg_distance, !.avg_pace = avg_pace,
     !.avg_hr = avg_hr_all, !.avg_weekly_runs = avg_weekly_runs,
     !.weeks = weeks,
     !.max_distance = IF distances # <<>> THEN RMax(distances) ELSE Zero,
     !.level = level, !.plan = PlanOf(goal, level),
     !.zones = Positive(avg_hr_all)]

\* "Calculate averages"
RecommendAveraged(found, goal, paces, distances, heart_rates, total_distance, weeks, avg_weekly_runs) ==
  RecommendLevelled(found, goal, paces, distances, heart_rates,
                    RDiv(total_distance, Whole(found)),
                    MeanOrZero(paces), MeanOrZero(heart_rates),
                    weeks, avg_weekly_runs, Level(avg_weekly_runs))

\* sum(xs) / len(xs) if xs else 0: the divisor
MeanDivisors(xs) == IF xs # <<>> THEN {Whole(Len(xs))} ELSE {}

\* the divisors of RecommendTrainingTool._run: per-run distances, len(runs),
\* the lengths of the lists and the number of frequency groups
RecommendDivisors(runs) ==
  IF Len(runs) < MinRecommendRuns THEN {}
  ELSE PaceDivisors(runs) \cup {Whole(Len(runs))}
       \cup MeanDivisors(Paces(runs)) \cup MeanDivisors(HeartRates(runs))
       \cup (IF WeeklyKeys(runs) # {}
             THEN {Whole(Cardinality(WeeklyKeys(runs)))} ELSE {})

\* RecommendRuns that lets four sessions through
RecommendRunsLenient(runs, goal) ==
  IF Len(runs) < MinRecommendRuns - 1
  THEN InsufficientOutput("RecommendTraining", runs)
  ELSE RecommendAveraged(Len(runs), goal, Paces(runs), Distances(runs),
                         HeartRates(runs), RSum([i \in DOMAIN runs |-> distance_km(runs[i])]),
                         WeeklyKeys(runs), AvgWeeklyRuns(runs))

\* the body of _run from "if len(runs) < 5" on
RecommendRuns(runs, goal) ==
  IF Len(runs) < MinRecommendRuns
  THEN InsufficientOutput("RecommendTraining", runs)
  ELSE RecommendAveraged(Len(runs), goal, Paces(runs), Distances(runs),
                         HeartRates(runs), RSum([i \in DOMAIN runs |-> distance_km(runs[i])]),
                         WeeklyKeys(runs), AvgWeeklyRuns(runs))

\* RecommendTrainingTool._run after the response has arrived
RecommendTraining(acts, num_sessions, goal) ==
  Divided("RecommendTraining",
          RecommendDivisors(FilterRuns(acts, num_sessions)),
          RecommendRuns(FilterRuns(acts, num_sessions), goal))

-----------------------------------------------------------------------------
(* The state machine: the athlete's activity list as the API returns it,   *)
(* and tool calls made one at a time by the agent.                         *)

\* StravaAuth._access_token = None
NoToken == "None"

\* the module's StravaAuth instance and a SimpleStravaAgent not yet built
\* expired: Strava no longer accepts the token that StravaAuth holds
NoTokens ==
  [StravaAuth |-> NoToken, SimpleStravaAgent |-> NoToken, expired |-> FALSE]

\* no call under way
NoCall ==
  [tool |-> "none", query |-> "none", at |-> "idle", left |-> 0,
   posts |-> 0, gets |-> 0, failure |-> "none", result |-> "none",
   e |-> "none", raised |-> FALSE, bearer |-> "none"]

NoUrl == [path |-> "", key |-> "", size |-> ""]

\* an activity as the activity endpoint returns it; 0, <<0, 1>> and "" stand
\* for a record without that key
Detail(t, dist, hr, max_hr, speed, max_speed, watts, polyline) ==
  [type |-> t, distance |-> dist, moving_time |-> 3000,
   average_heartrate |-> hr, max_heartrate |-> max_hr,
   average_speed |-> speed, max_speed |-> max_speed,
   average_watts |-> watts, polyline |-> polyline]

NoDetail == Detail("none", 0, 0, 0, Zero, Zero, 0, "")

NoInput ==
  [activity |-> NoDetail, other |-> NoDetail, google_maps_key |-> "",
   mapbox_token |-> "", avg_weekly_runs |-> Zero, goal |-> "none"]

\* nothing formatted yet
NoShown ==
  [by |-> "none", input |-> NoInput, lines |-> <<>>, level |-> "none",
   plan |-> [focus |-> "none", week |-> "none"]]

\* no invocation kept for comparison
NoEarlier == [out |-> Blank, call |-> NoCall]

\* the StravaAuth class before its first construction: _instance = None
\* FALSE stands for None or "", TRUE for a value; env is os.environ, missing
\* tells whether a variable was missing at the last construction and last
\* how that construction ended
NoAuth ==
  [instance |-> FALSE, initialized |-> FALSE,
   client_id |-> FALSE, client_secret |-> FALSE, refresh_token |-> FALSE,
   env |-> [client_id |-> TRUE, client_secret |-> TRUE, refresh_token |-> TRUE],
   attempts |-> 0, missing |-> FALSE, last |-> "none"]

\* no request to strava_a2a_agent under way
NoTurn ==
  [at |-> "idle", tool_outputs |-> <<>>, images_found |-> {},
   yielded |-> <<>>, stored |-> <<>>, raised |-> "none"]

\* input.num_sessions: Field(ge=2, le=30); from MaxActs on every value acts
\* alike, as no list is longer
CompareNumSessions == MinCompareRuns..MaxActs

\* input.num_sessions: Field(ge=5, le=30)
RecommendNumSessions == MinRecommendRuns..MaxActs

\* the invocation's input, kept beside the output
WithInput(o, num_sessions, goal, date1, date2) ==
  [o EXCEPT !.num_sessions = num_sessions, !.goal = goal,
            !.date1 = date1, !.date2 = date2]

Init ==
  /\ activities \in SeqsUpTo(Activities, MaxActs)
  /\ pc = "idle"
  /\ out = Blank
  /\ access_token = NoTokens
  /\ call = NoCall
  /\ shown = NoShown
  /\ earlier = NoEarlier
  /\ auth = NoAuth
  /\ turn = NoTurn

\* CompareRunningSessionsTool._run: the request fails (requests.get or
\* raise_for_status raises, caught by "except Exception"), or the response
\* is analysed
CallCompareRunningSessions ==
  /\ pc = "idle"
  /\ out' \in {ErrorOutput("CompareRunningSessions")} \cup
       {WithInput(CompareRunningSessions(activities, n), n, "none", NoDate, NoDate) :
          n \in CompareNumSessions}
  /\ pc' = "returned"
  /\ UNCHANGED <<activities, access_token, call, shown, earlier, auth, turn>>

\* CompareSpecificRunsTool._run
CallCompareSpecificRuns ==
  /\ pc = "idle"
  /\ out' \in {ErrorOutput("CompareSpecificRuns")} \cup
       {WithInput(CompareSpecificRuns(activities, d[1], d[2]), 0, "none", d[1], d[2]) :
          d \in Dates \X Dates}
  /\ pc' = "returned"
  /\ UNCHANGED <<activities, access_token, call, shown, earlier, auth, turn>>

\* RecommendTrainingTool._run
CallRecommendTraining ==
  /\ pc = "idle"
  /\ out' \in {ErrorOutput("RecommendTraining")} \cup
       {WithInput(RecommendTraining(activities, a[1], a[2]), a[1], a[2], NoDate, NoDate) :
          a \in RecommendNumSessions \X Goals}
  /\ pc' = "returned"
  /\ UNCHANGED <<activities, access_token, call, shown, earlier, auth, turn>>

\* the agent has read the tool's output and may call a tool again
NextTurn ==
  /\ pc = "returned"
  /\ pc' = "idle"
  /\ out' = Blank
  /\ UNCHANGED <<activities, access_token, call, shown, earlier, auth, turn>>

Next ==
  \/ CallCompareRunningSessions
  \/ CallCompareSpecificRuns
  \/ CallRecommendTraining
  \/ NextTurn

Spec == Init /\ [][Next]_vars

-----------------------------------------------------------------------------
(* The output of the tools that show one activity, line by line, and the   *)
(* level of RecommendTraining, as functions of their input.  A line keeps  *)
(* the label, the optional field of the response it shows ("none" for a    *)
(* field every activity has), the session it belongs to, and the number as *)
(* formatted.                                                              *)

Pow10(k) == IF k = 0 THEN 1 ELSE IF k = 1 THEN 10 ELSE 100

\* f"{x:.kf}" for x >= 0: x rounded to k decimals (ties upwards)
Fixed(x, k) == Norm((2 * x[1] * Pow10(k) + x[2]) \div (2 * x[2]), Pow10(k))

\* f"{int(p)}:{int((p - int(p)) * 60):02d}": p cut to whole seconds
Clock(p) == Norm((p[1] * 60) \div p[2], 60)

Line(label, field, session, text, value, url) ==
  [label |-> label, field |-> field, session |-> session, text |-> text,
   value |-> value, url |-> url]

Number(label, field, session, value) ==
  Line(label, field, session, "number", value, NoUrl)

\* the cell "N/A"
NotAvailable(label, field, session) ==
  Line(label, field, session, "N/A", Zero, NoUrl)

\* f"![{label}]({map_url})"
Image(label, url) == Line(label, "map", 1, "image", Zero, url)

When(b, lines) == IF b THEN lines ELSE <<>>

\* generate_map_url that builds a URL from the Mapbox token as well
generate_map_url_mapbox(polyline, size, google_maps_key, mapbox_token) ==
  IF polyline = "" THEN NoUrl
  ELSE IF google_maps_key # ""
  THEN [path |-> polyline, key |-> google_maps_key, size |-> size]
  ELSE IF mapbox_token # ""
  THEN [path |-> polyline, key |-> mapbox_token, size |-> size]
  ELSE NoUrl

\* StravaVisualFormatter._generate_map_url; NoUrl stands for None
generate_map_url(polyline, size, google_maps_key, mapbox_token) ==
  IF polyline = "" THEN NoUrl
  ELSE IF google_maps_key # ""
  THEN [path |-> polyline, key |-> google_maps_key, size |-> size]
  ELSE IF mapbox_token # "" THEN NoUrl
  ELSE NoUrl

\* the map line of format_activity_with_map, given the url
MapLine(polyline, map_url) ==
  When(polyline # "" /\ map_url # NoUrl, <<Image("Route Map", map_url)>>)

\* StravaVisualFormatter.format_activity_with_map
format_activity_with_map(activity, google_maps_key, mapbox_token) ==
  MapLine(activity.polyline,
          generate_map_url(activity.polyline, "600x400", google_maps_key,
                           mapbox_token))
  \o <<Number("Distance", "none", 1, Fixed(distance_km(activity), 2)),
       Number("Time", "none", 1, Fixed(time_min(activity), 0))>>
  \o When(Positive(activity.average_speed),
          <<Number("Average Speed", "average_speed", 1,
                   Fixed(speed_kmh(activity), 1))>>
          \o When(activity.type = "Run" /\ Positive(activity.average_speed),
                  <<Number("Average Pace", "average_speed", 1,
                           Clock(RDiv(Whole(60), speed_kmh(activity))))>>))
  \o When(activity.average_heartrate # 0,
          <<Number("Average HR", "average_heartrate", 1,
                   Whole(activity.average_heartrate))>>)
  \o When(activity.max_heartrate # 0,
          <<Number("Max HR", "max_heartrate", 1, Whole(activity.max_heartrate))>>)
  \o When(activity.average_watts # 0,
          <<Number("Average Power", "average_watts", 1,
                   Whole(activity.average_watts))>>)

\* GetActivityByIdTool._run, from the response on
GetActivityById(activity, google_maps_key) ==
  When(activity.polyline # "" /\ google_maps_key # "",
       <<Image("Route Map", [path |-> activity.polyline,
                             key |-> google_maps_key, size |-> "600x400"])>>)
  \o <<Number("Distance", "none", 1, Fixed(distance_km(activity), 2)),
       Number("Moving time", "none", 1, Fixed(time_min(activity), 0))>>
  \o When(activity.average_heartrate # 0,
          <<Number("Avg HR", "average_heartrate", 1,
                   Whole(activity.average_heartrate)),
            Number("Max HR", "max_heartrate", 1, Whole(activity.max_heartrate))>>)
  \o When(Positive(activity.average_speed),
          <<Number("Avg speed", "average_speed", 1,
                   Fixed(speed_kmh(activity), 1)),
            Number("Max speed", "max_speed", 1,
                   Fixed(RMul(activity.max_speed, Norm(36, 10)), 1))>>)
  \o When(activity.average_watts # 0,
          <<Number("Avg power", "average_watts", 1,
                   Whole(activity.average_watts))>>)

\* GetActivitiesTool._run: the lines of one activity of the list
GetActivitiesEntry(activity) ==
  <<Number("Distance", "none", 1, Fixed(distance_km(activity), 2)),
    Number("Time", "none", 1, Fixed(time_min(activity), 0))>>
  \o When(activity.average_heartrate # 0,
          <<Number("Avg HR", "average_heartrate", 1,
                   Whole(activity.average_heartrate))>>)
  \o When(Positive(activity.average_speed),
          <<Number("Speed", "average_speed", 1, Fixed(speed_kmh(activity), 1))>>)

\* CompareRunningSessionsTool._run: the cells of one table row
CompareRow(run) ==
  <<Number("Distance (km)", "none", 1, Fixed(distance_km(run), 2)),
    Number("Time (min)", "none", 1, Fixed(time_min(run), 0)),
    IF Positive(pace_min_km(run))
    THEN Number("Pace (min/km)", "none", 1, Clock(pace_min_km(run)))
    ELSE NotAvailable("Pace (min/km)", "none", 1),
    IF Positive(avg_hr(run))
    THEN Number("Avg HR", "average_heartrate", 1, avg_hr(run))
    ELSE NotAvailable("Avg HR", "average_heartrate", 1),
    Number("Speed (km/h)", "average_speed", 1, Fixed(speed_kmh(run), 1))>>

\* CompareSpecificRunsTool._run: the speed and heart-rate rows of the table
SpecificRows(run1, run2) ==
  <<Number("Speed", "average_speed", 1, Fixed(speed_kmh(run1), 1)),
    Number("Speed", "average_speed", 2, Fixed(speed_kmh(run2), 1))>>
  \o When(Positive(avg_hr(run1)) /\ Positive(avg_hr(run2)),
          <<Number("Avg HR", "average_heartrate", 1, avg_hr(run1)),
            Number("Avg HR", "average_heartrate", 2, avg_hr(run2))>>)
  \o When(run1.max_heartrate > 0 /\ run2.max_heartrate > 0,
          <<Number("Max HR", "max_heartrate", 1, Whole(run1.max_heartrate)),
            Number("Max HR", "max_heartrate", 2, Whole(run2.max_heartrate))>>)

\* the optional fields of the drawn activities, each absent or present
Details ==
  {Detail(t, dist, hr, max_hr, speed, max_speed, watts, polyline) :
     t \in {"Run", "Ride"}, dist \in {0, 10000},
     hr \in {0, 150}, max_hr \in {0, 180},
     speed \in {Zero, <<10, 3>>}, max_speed \in {Zero, <<5, 1>>},
     watts \in {0, 200}, polyline \in {"", "_p~iF~ps|U"}}

\* the two sessions of a comparison: runs that differ in the optional fields
Sessions ==
  {d \in Details : /\ d.type = "Run" /\ d.distance > 0 /\ d.average_watts = 0
                   /\ d.polyline = "" /\ d.max_speed = Zero}

\* os.getenv("GOOGLE_MAPS_API_KEY", "")
GoogleKeys == {"", "google-key"}

\* os.getenv("MAPBOX_ACCESS_TOKEN", "")
MapboxTokens == {"", "mapbox-token"}

\* values of avg_weekly_runs
Frequencies == {Norm(n, d) : n \in 1..12, d \in 1..3}

Formatted(by, activity, other, google_maps_key, mapbox_token, lines) ==
  [NoShown EXCEPT
     !.by = by,
     !.input = [NoInput EXCEPT !.activity = activity, !.other = other,
                               !.google_maps_key = google_maps_key,
                               !.mapbox_token = mapbox_token],
     !.lines = lines]

\* "Determine training level" and the plan of the goal's helper
Levelled(avg_weekly_runs, goal, level) ==
  [NoShown EXCEPT
     !.by = "level",
     !.input = [NoInput EXCEPT !.avg_weekly_runs = avg_weekly_runs,
                               !.goal = goal],
     !.level = level, !.plan = PlanOf(goal, level)]

Aside == <<activities, pc, out, access_token, call, earlier, auth, turn>>

ShowActivityById ==
  /\ shown = NoShown
  /\ \E activity \in Details, key \in GoogleKeys :
       shown' = Formatted("GetActivityById", activity, NoDetail, key, "",
                          GetActivityById(activity, key))
  /\ UNCHANGED Aside

ShowActivitiesEntry ==
  /\ shown = NoShown
  /\ \E activity \in Details :
       shown' = Formatted("GetActivities", activity, NoDetail, "", "",
                          GetActivitiesEntry(activity))
  /\ UNCHANGED Aside

ShowCompareRow ==
  /\ shown = NoShown
  /\ \E run \in {d \in Details : d.type = "Run"} :
       shown' = Formatted("CompareRunningSessions", run, NoDetail, "", "",
                          CompareRow(run))
  /\ UNCHANGED Aside

ShowSpecificRows ==
  /\ shown = NoShown
  /\ \E run1 \in Sessions, run2 \in Sessions :
       shown' = Formatted("CompareSpecificRuns", run1, run2, "", "",
                          SpecificRows(run1, run2))
  /\ UNCHANGED Aside

ShowActivityWithMap ==
  /\ shown = NoShown
  /\ \E activity \in Details, key \in GoogleKeys, token \in MapboxTokens :
       shown' = Formatted("format_activity_with_map", activity, NoDetail,
                          key, token,
                          format_activity_with_map(activity, key, token))
  /\ UNCHANGED Aside

IdentifyLevel ==
  /\ shown = NoShown
  /\ \E avg_weekly_runs \in Frequencies, goal \in Goals :
       shown' = Levelled(avg_weekly_runs, goal, Level(avg_weekly_runs))
  /\ UNCHANGED Aside

\* the text has been handed over
Forget ==
  /\ shown # NoShown
  /\ shown' = NoShown
  /\ UNCHANGED Aside

InitFunctions ==
  /\ activities = <<>>
  /\ pc = "idle"
  /\ out = Blank
  /\ access_token = NoTokens
  /\ call = NoCall
  /\ shown = NoShown
  /\ earlier = NoEarlier
  /\ auth = NoAuth
  /\ turn = NoTurn

NextFunctions ==
  \/ ShowActivityById
  \/ ShowActivitiesEntry
  \/ ShowCompareRow
  \/ ShowSpecificRows
  \/ ShowActivityWithMap
  \/ IdentifyLevel
  \/ Forget

SpecFunctions == InitFunctions /\ [][NextFunctions]_vars

-----------------------------------------------------------------------------
(* The requests of a call.  A tool's _run evaluates _auth.get_headers(),   *)
(* which posts to the token endpoint only when StravaAuth holds no token,  *)
(* then sends its one GET, all inside "try"; "except Exception" turns any  *)
(* exception into the returned text.  SimpleStravaAgent refreshes its      *)
(* token in the constructor, outside any "try", and run() sends the GETs   *)
(* of the query inside "try".                                              *)

\* Tool.name of the nineteen tools
Tools ==
  {"GetAthleteProfile", "GetActivities", "GetActivityById", "GetAthleteStats",
   "GetActivityZones", "GetActivityLaps", "GetActivityStreams",
   "ExploreSegments", "GetSegmentById", "GetSegmentLeaderboard",
   "GetAthleteClubs", "GetClubById", "GetClubActivities", "GetClubMembers",
   "GetRouteById", "GetAthleteRoutes", "CompareRunningSessions",
   "CompareSpecificRuns", "RecommendTraining"}

\* the branches of SimpleStravaAgent.run
Queries == {"profile", "activity", "stats", "other"}

\* the GET requests of a branch: stats asks for the profile, then the stats
RequestsOf(query) ==
  IF query = "stats" THEN 2 ELSE IF query = "other" THEN 0 ELSE 1

\* requests.post / raise_for_status on the token endpoint: the exception
RefreshFailures == {"ConnectionError", "Timeout", "400", "401", "429", "500"}

\* requests.get / raise_for_status on a data endpoint: the exception
RequestFailures ==
  {"ConnectionError", "Timeout", "401", "403", "404", "429", "500", "503"}

\* response.json() on a body that is not JSON
BodyFailures == {"JSONDecodeError"}

\* data["access_token"]
Token == "token"

\* the call has sent a POST to the token endpoint
Posted(c) == [c EXCEPT !.posts = c.posts + 1]

\* the call has sent a GET to a data endpoint
Got(c) == [c EXCEPT !.gets = c.gets + 1, !.left = c.left - 1]

\* an exception leaves the "try" block
Failed(c, failure) == [c EXCEPT !.at = "except", !.failure = failure]

\* Handled that sends the call round again after a 401
HandledWithRetry(c) ==
  IF c.failure = "401" /\ c.posts + c.gets < 3
  THEN [c EXCEPT !.at = "headers", !.failure = "none", !.left = 1]
  ELSE [c EXCEPT !.at = "done", !.result = "error", !.e = c.failure]

\* Handled that lets a server error through
HandledReraising(c) ==
  IF c.failure \in {"500", "503"}
  THEN [c EXCEPT !.at = "done", !.raised = TRUE]
  ELSE [c EXCEPT !.at = "done", !.result = "error", !.e = c.failure]

\* except Exception as e: return StringToolOutput(f"Error ...: {e}")
Handled(c) == [c EXCEPT !.at = "done", !.result = "error", !.e = c.failure]

\* an exception outside any "try": the constructor raises to its caller
Raised(c, failure) ==
  [c EXCEPT !.at = "done", !.failure = failure, !.e = failure, !.raised = TRUE]

Beside == <<activities, pc, out, shown, earlier, auth, turn>>

\* get_token that refreshes on every call
NeedsRefreshAlways(token) == token = token

\* get_token: if not self._access_token
NeedsRefresh(token) == token = NoToken

\* the agent invokes a tool: _run enters "try"
Invoke ==
  /\ call = NoCall
  /\ \E tool \in Tools :
       call' = [NoCall EXCEPT !.tool = tool, !.at = "headers", !.left = 1]
  /\ UNCHANGED <<access_token, Beside>>

\* StravaAuth.get_token with a token held: no request
TokenHeld ==
  /\ call.at = "headers"
  /\ ~NeedsRefresh(access_token.StravaAuth)
  /\ call' = [call EXCEPT !.at = "request",
                          !.bearer = IF access_token.expired THEN "stale"
                                     ELSE "valid"]
  /\ UNCHANGED <<access_token, Beside>>

\* StravaAuth.get_token without a token: _refresh_token posts once
RefreshToken ==
  /\ call.at = "headers"
  /\ NeedsRefresh(access_token.StravaAuth)
  /\ \/ /\ call' = [Posted(call) EXCEPT !.at = "request", !.bearer = "valid"]
        /\ access_token' = [access_token EXCEPT !.StravaAuth = Token,
                                                !.expired = FALSE]
     \/ /\ \E failure \in RefreshFailures \cup BodyFailures :
             call' = Failed(Posted(call), failure)
        /\ UNCHANGED access_token
  /\ UNCHANGED Beside

\* requests.get(...); response.raise_for_status(); response.json()
Request ==
  /\ call.at = "request"
  /\ call.left > 0
  /\ \/ /\ ~(call.tool \in Tools /\ access_token.expired)
        /\ call' = Got(call)
     \/ \E failure \in RequestFailures \cup BodyFailures :
          call' = Failed(Got(call), failure)
  /\ UNCHANGED <<access_token, Beside>>

\* the response is formatted and returned
Format ==
  /\ call.at = "request"
  /\ call.left = 0
  /\ call' = [call EXCEPT !.at = "done", !.result = "text"]
  /\ UNCHANGED <<access_token, Beside>>

\* the "except Exception" clause of _run and of SimpleStravaAgent.run
Except ==
  /\ call.at = "except"
  /\ call' = Handled(call)
  /\ UNCHANGED <<access_token, Beside>>

\* SimpleStravaAgent(): __init__ calls _refresh_access_token
Construct ==
  /\ call = NoCall
  /\ access_token.SimpleStravaAgent = NoToken
  /\ \/ /\ call' = [Posted(NoCall) EXCEPT !.tool = "SimpleStravaAgent.__init__",
                                          !.at = "done", !.result = "agent"]
        /\ access_token' = [access_token EXCEPT !.SimpleStravaAgent = Token]
     \/ /\ \E failure \in RefreshFailures \cup BodyFailures :
             call' = Raised([Posted(NoCall) EXCEPT
                               !.tool = "SimpleStravaAgent.__init__"], failure)
        /\ UNCHANGED access_token
  /\ UNCHANGED Beside

\* SimpleStravaAgent.run(query) on a constructed agent
Run ==
  /\ call = NoCall
  /\ access_token.SimpleStravaAgent # NoToken
  /\ \E query \in Queries :
       call' = [NoCall EXCEPT !.tool = "SimpleStravaAgent.run",
                              !.query = query, !.at = "request",
                              !.bearer = "valid",
                              !.left = RequestsOf(query)]
  /\ UNCHANGED <<access_token, Beside>>

\* the caller has the result (or the exception); the tokens stay
Return ==
  /\ call.at = "done"
  /\ call' = NoCall
  /\ UNCHANGED <<access_token, Beside>>

\* the process ends: a new one starts without tokens
Restart ==
  /\ call = NoCall
  /\ access_token # NoTokens
  /\ access_token' = NoTokens
  /\ UNCHANGED <<call, Beside>>

\* the hours of the token's life are over (expires_at of the response)
Expire ==
  /\ access_token.StravaAuth # NoToken
  /\ ~access_token.expired
  /\ access_token' = [access_token EXCEPT !.expired = TRUE]
  /\ UNCHANGED <<call, Beside>>

InitCalls ==
  /\ activities = <<>>
  /\ pc = "idle"
  /\ out = Blank
  /\ access_token = NoTokens
  /\ call = NoCall
  /\ shown = NoShown
  /\ earlier = NoEarlier
  /\ auth = NoAuth
  /\ turn = NoTurn

NextCalls ==
  \/ Invoke
  \/ TokenHeld
  \/ RefreshToken
  \/ Request
  \/ Format
  \/ Except
  \/ Construct
  \/ Run
  \/ Return
  \/ Restart
  \/ Expire

SpecCalls == InitCalls /\ [][NextCalls]_vars

-----------------------------------------------------------------------------
(* Invocations of the three analysis tools one after another in one        *)
(* process, each with its requests: the first one posts for the token, the *)
(* later ones find it in StravaAuth.  One earlier invocation is kept, with *)
(* its input and its output, to be compared with a later one.              *)

\* the activities of the responses: two runs of different dates and a ride
RepeatActivities == {BaseRun, WorseRun, Ride}

\* the exceptions of the requests: a network error and a refused token
RepeatFailures == {"Timeout", "401"}

\* what the three tools return for every input, given the response
Outputs(acts) ==
  {WithInput(CompareRunningSessions(acts, n), n, "none", NoDate, NoDate) :
     n \in CompareNumSessions}
  \cup {WithInput(CompareSpecificRuns(acts, d[1], d[2]), 0, "none", d[1], d[2]) :
          d \in {a.start_date_local : a \in RepeatActivities}
                \X {a.start_date_local : a \in RepeatActivities}}
  \cup {WithInput(RecommendTraining(acts, a[1], a[2]), a[1], a[2], NoDate, NoDate) :
          a \in RecommendNumSessions \X {"improve_pace", "build_endurance"}}

\* the requests of an invocation that has ended
Ended(tool, posts, gets, failure, result) ==
  [NoCall EXCEPT !.tool = tool, !.at = "done", !.posts = posts, !.gets = gets,
                 !.failure = failure, !.e = failure, !.result = result]

\* the POST requests of get_token: one when no token is held
PostsNeeded == IF access_token.StravaAuth = NoToken THEN 1 ELSE 0

Apart == <<activities, shown, auth, turn>>

\* _run from the call to the returned text: token, GET, analysis
Analyse ==
  /\ pc = "idle"
  /\ \E o \in Outputs(activities) :
       /\ out' = o
       /\ call' = Ended(o.tool, PostsNeeded, 1, "none", "text")
  /\ access_token' = [access_token EXCEPT !.StravaAuth = Token]
  /\ pc' = "returned"
  /\ UNCHANGED <<earlier, Apart>>

\* _run whose token refresh fails
AnalyseUnauthorised ==
  /\ pc = "idle"
  /\ access_token.StravaAuth = NoToken
  /\ \E o \in Outputs(activities), failure \in RepeatFailures :
       /\ out' = ErrorOutput(o.tool)
       /\ call' = Ended(o.tool, 1, 0, failure, "error")
  /\ pc' = "returned"
  /\ UNCHANGED <<access_token, earlier, Apart>>

\* _run whose GET fails
AnalyseUnanswered ==
  /\ pc = "idle"
  /\ \E o \in Outputs(activities), failure \in RepeatFailures :
       /\ out' = ErrorOutput(o.tool)
       /\ call' = Ended(o.tool, PostsNeeded, 1, failure, "error")
  /\ access_token' = [access_token EXCEPT !.StravaAuth = Token]
  /\ pc' = "returned"
  /\ UNCHANGED <<earlier, Apart>>

\* an invocation that returned its text is kept for comparison
Keep ==
  /\ pc = "returned"
  /\ out.kind # "error"
  /\ earlier' = [out |-> out, call |-> call]
  /\ out' = Blank
  /\ call' = NoCall
  /\ pc' = "idle"
  /\ UNCHANGED <<access_token, Apart>>

\* the invocation is over
Leave ==
  /\ pc = "returned"
  /\ out' = Blank
  /\ call' = NoCall
  /\ pc' = "idle"
  /\ UNCHANGED <<access_token, earlier, Apart>>

\* the server process is started anew: StravaAuth holds no token
StartAnew ==
  /\ pc = "idle"
  /\ access_token # NoTokens
  /\ access_token' = NoTokens
  /\ UNCHANGED <<pc, out, call, earlier, Apart>>

InitRepeat ==
  /\ activities \in SeqsUpTo(RepeatActivities, MaxActs)
  /\ pc = "idle"
  /\ out = Blank
  /\ access_token = NoTokens
  /\ call = NoCall
  /\ shown = NoShown
  /\ earlier = NoEarlier
  /\ auth = NoAuth
  /\ turn = NoTurn

NextRepeat ==
  \/ Analyse
  \/ AnalyseUnauthorised
  \/ AnalyseUnanswered
  \/ Keep
  \/ Leave
  \/ StartAnew

SpecRepeat == InitRepeat /\ [][NextRepeat]_vars

-----------------------------------------------------------------------------
(* The construction of StravaAuth: __new__ keeps one instance in the class *)
(* and __init__ reads the credentials when the instance has no attribute   *)
(* 'initialized'.                                                          *)

MaxAttempts == 3

\* the values of STRAVA_CLIENT_ID, STRAVA_CLIENT_SECRET, STRAVA_REFRESH_TOKEN
Environments ==
  [client_id : BOOLEAN, client_secret : BOOLEAN, refresh_token : BOOLEAN]

\* all([client_id, client_secret, refresh_token])
Complete(c) == c.client_id /\ c.client_secret /\ c.refresh_token

\* StravaAuth.__init__ on the instance that __new__ returned
Initialised(a) ==
  IF a.initialized THEN [a EXCEPT !.last = "returned"]
  ELSE [a EXCEPT !.client_id = a.env.client_id,
                 !.client_secret = a.env.client_secret,
                 !.refresh_token = a.env.refresh_token,
                 !.initialized = TRUE,
                 !.last = IF Complete(a.env) THEN "returned" ELSE "ValueError"]

\* StravaAuth(): __new__, then __init__
Created(a) ==
  Initialised([a EXCEPT !.instance = TRUE, !.attempts = a.attempts + 1,
                        !.missing = ~Complete(a.env)])

Outside == <<activities, pc, out, access_token, call, shown, earlier, turn>>

\* a caller constructs StravaAuth
ConstructAuth ==
  /\ auth.attempts < MaxAttempts
  /\ auth' = Created(auth)
  /\ UNCHANGED Outside

\* the environment changes (load_dotenv, os.environ)
SetEnvironment ==
  /\ \E env \in Environments \ {auth.env} : auth' = [auth EXCEPT !.env = env]
  /\ UNCHANGED Outside

\* the process ends; the next one starts with a class without an instance
EndProcess ==
  /\ auth.attempts > 0
  /\ auth' = [NoAuth EXCEPT !.env = auth.env]
  /\ UNCHANGED Outside

InitAuth ==
  /\ activities = <<>>
  /\ pc = "idle"
  /\ out = Blank
  /\ access_token = NoTokens
  /\ call = NoCall
  /\ shown = NoShown
  /\ earlier = NoEarlier
  /\ auth \in {[NoAuth EXCEPT !.env = env] : env \in Environments}
  /\ turn = NoTurn

NextAuth ==
  \/ ConstructAuth
  \/ SetEnvironment
  \/ EndProcess

SpecAuth == InitAuth /\ [][NextAuth]_vars

-----------------------------------------------------------------------------
(* Vocabulary of the properties, stated from the activity list and the     *)
(* input of the call rather than through the operators above.              *)

Returned(tool, kind) == pc = "returned" /\ out.tool = tool /\ out.kind = kind

CompareReport == Returned("CompareRunningSessions", "report")

SpecificReport2 == Returned("CompareSpecificRuns", "report")

RecommendReport == Returned("RecommendTraining", "report")

\* positions of the fetched activities that are runs
RunIndices == {i \in DOMAIN activities : activities[i].type = "Run"}

\* the runs a call with out.num_sessions analyses: the first num_sessions runs
Analysed ==
  {i \in RunIndices :
     Cardinality({j \in RunIndices : j <= i}) <= out.num_sessions}

HasPace(i) == activities[i].distance > 0 /\ activities[i].moving_time > 0

HasDistance(i) == activities[i].distance > 0

HasHr(i) == activities[i].average_heartrate > 0

HasSpeed(i) == activities[i].average_speed[1] > 0

\* (new - old) / old * 100 > pct, for old > 0, by cross-multiplication
ChangeAbove(new, old, pct) ==
  100 * (new[1] * old[2] - old[1] * new[2]) > pct * old[1] * new[2]

\* (new - old) / old * 100 < pct, for old > 0
ChangeBelow(new, old, pct) ==
  100 * (new[1] * old[2] - old[1] * new[2]) < pct * old[1] * new[2]

ChangeExactly(new, old, pct) ==
  100 * (new[1] * old[2] - old[1] * new[2]) = pct * old[1] * new[2]

RECURSIVE SumRange(_, _, _)
SumRange(s, lo, hi) ==
  IF lo > hi THEN Zero ELSE RAdd(s[lo], SumRange(s, lo + 1, hi))

\* mean is the arithmetic mean of s[lo..hi]
MeanIs(mean, s, lo, hi) == RMul(mean, Whole(hi - lo + 1)) = SumRange(s, lo, hi)

-----------------------------------------------------------------------------
\* C1: in CompareRunningSessions, with change = (recent mean - older mean) /
\* older mean * 100 of the pace, the pace label is IMPROVEMENT exactly when
\* change < -2, DECLINE exactly when change > +2 and STABLE otherwise, so a
\* change of exactly +2% or -2% is STABLE.
C1_PaceBand ==
  (CompareReport /\ out.pace.present) =>
    LET below == ChangeBelow(out.pace.recent, out.pace.older, -2)
        above == ChangeAbove(out.pace.recent, out.pace.older, 2)
    IN  /\ (out.pace.label = "IMPROVEMENT") <=> below
        /\ (out.pace.label = "DECLINE") <=> above
        /\ (out.pace.label = "STABLE") <=> (~below /\ ~above)

\* a comparison whose pace change is exactly +2% and is labelled STABLE
C1_Witness ==
  /\ CompareReport /\ out.pace.present
  /\ ChangeExactly(out.pace.recent, out.pace.older, 2)
  /\ out.pace.label = "STABLE"

\* further cases of C1 that are reached: just above +2%, and exactly -2%
C1_WitnessDecline ==
  /\ CompareReport /\ out.pace.present
  /\ ChangeAbove(out.pace.recent, out.pace.older, 2)
  /\ ChangeBelow(out.pace.recent, out.pace.older, 3)
  /\ out.pace.label = "DECLINE"

C1_WitnessLower ==
  /\ CompareReport /\ out.pace.present
  /\ ChangeExactly(out.pace.recent, out.pace.older, -2)
  /\ out.pace.label = "STABLE"

C1_WitnessImprovement ==
  CompareReport /\ out.pace.label = "IMPROVEMENT"

-----------------------------------------------------------------------------
\* C2: for distance, in CompareRunningSessions and in the detailed analysis
\* of CompareSpecificRuns, with change = (new - old) / old * 100, a change
\* above +5% is the improvement (INCREASE), a change below -5% is the decline
\* (REDUCTION), and every change in [-5, +5], the two ends included, is
\* stable (STABLE, resp. SIMILAR).
C2_DistBand ==
  (/\ CompareReport \/ SpecificReport2
   /\ out.distance.present
   /\ Positive(out.distance.older)) =>
    LET below == ChangeBelow(out.distance.recent, out.distance.older, -5)
        above == ChangeAbove(out.distance.recent, out.distance.older, 5)
    IN  /\ (out.distance.label = "INCREASE") <=> above
        /\ (out.distance.label = "REDUCTION") <=> below
        /\ (out.distance.label \in {"STABLE", "SIMILAR"}) <=> (~below /\ ~above)
        /\ out.distance.label = "STABLE" => CompareReport
        /\ out.distance.label = "SIMILAR" => SpecificReport2

\* a windowed comparison whose distance change is exactly +5%, judged STABLE
C2_Witness ==
  /\ CompareReport /\ out.distance.present
  /\ ChangeExactly(out.distance.recent, out.distance.older, 5)
  /\ out.distance.label = "STABLE"

\* further cases of C2 that are reached
C2_WitnessSpecificLower ==
  /\ SpecificReport2 /\ Positive(out.distance.older)
  /\ ChangeExactly(out.distance.recent, out.distance.older, -5)
  /\ out.distance.label = "SIMILAR"

C2_WitnessSpecificIncrease ==
  SpecificReport2 /\ out.distance.label = "INCREASE"

C2_WitnessReduction ==
  CompareReport /\ out.distance.label = "REDUCTION"

\* C3: for heart rate, in both comparison tools, with change =
\* (new - old) / old * 100, the label is IMPROVEMENT exactly when
\* change < -2, INCREASE exactly when change > +2, and STABLE for every
\* change in [-2, +2].
C3_HrBand ==
  (/\ CompareReport \/ SpecificReport2
   /\ out.heart_rate.present) =>
    LET below == ChangeBelow(out.heart_rate.recent, out.heart_rate.older, -2)
        above == ChangeAbove(out.heart_rate.recent, out.heart_rate.older, 2)
    IN  /\ (out.heart_rate.label = "IMPROVEMENT") <=> below
        /\ (out.heart_rate.label = "INCREASE") <=> above
        /\ (out.heart_rate.label = "STABLE") <=> (~below /\ ~above)

\* two sessions whose heart rate fell by exactly 2%, judged STABLE
C3_Witness ==
  /\ SpecificReport2 /\ out.heart_rate.present
  /\ ChangeExactly(out.heart_rate.recent, out.heart_rate.older, -2)
  /\ out.heart_rate.label = "STABLE"

\* further cases of C3 that are reached
C3_WitnessCompareUpper ==
  /\ CompareReport /\ out.heart_rate.present
  /\ ChangeExactly(out.heart_rate.recent, out.heart_rate.older, 2)
  /\ out.heart_rate.label = "STABLE"

C3_WitnessImprovement ==
  /\ CompareReport \/ SpecificReport2
  /\ out.heart_rate.label = "IMPROVEMENT"

C3_WitnessIncrease ==
  /\ CompareReport \/ SpecificReport2
  /\ out.heart_rate.label = "INCREASE"

\* the number of metrics, among pace, distance and heart rate, whose section
\* carries the improvement label; a skipped section carries no label
ImprovementLabels ==
    Bit(out.pace.label = "IMPROVEMENT")
  + Bit(out.distance.label = "INCREASE")
  + Bit(out.heart_rate.label = "IMPROVEMENT")

\* C4: the overall verdict of both comparison tools depends only on how many
\* of pace, distance and heart rate were labelled improvement: two or more
\* give EXCELLENT, exactly one gives GOOD (PROGRESS in CompareSpecificRuns),
\* none gives STAY CONSISTENT (CONTINUE); a skipped metric counts as no
\* improvement and speed never counts.
C4_Verdict ==
  /\ CompareReport =>
       /\ out.improvements = ImprovementLabels
       /\ out.verdict = IF ImprovementLabels >= 2 THEN "EXCELLENT"
                        ELSE IF ImprovementLabels = 1 THEN "GOOD"
                        ELSE "STAY CONSISTENT"
  /\ SpecificReport2 =>
       /\ out.improvements = ImprovementLabels
       /\ out.verdict = IF ImprovementLabels >= 2 THEN "EXCELLENT"
                        ELSE IF ImprovementLabels = 1 THEN "PROGRESS"
                        ELSE "CONTINUE"

\* exactly two improvements, the third metric within its band: EXCELLENT
C4_Witness ==
  /\ CompareReport
  /\ out.heart_rate.label = "STABLE"
  /\ ImprovementLabels = 2
  /\ out.verdict = "EXCELLENT"

\* two improvements while the heart-rate comparison was skipped
C4_WitnessSkipped ==
  /\ SpecificReport2
  /\ ~out.heart_rate.present
  /\ ImprovementLabels = 2
  /\ out.verdict = "EXCELLENT"

\* further cases of C4 that are reached: a faster second session whose pace,
\* distance and heart rate are all within their bands
C4_WitnessSpeed ==
  /\ SpecificReport2
  /\ out.speed_indicator = "improved"
  /\ ImprovementLabels = 0
  /\ out.verdict = "CONTINUE"

C4_WitnessOne ==
  CompareReport /\ ImprovementLabels = 1 /\ out.verdict = "GOOD"

C4_WitnessThree ==
  SpecificReport2 /\ ImprovementLabels = 3 /\ out.verdict = "EXCELLENT"

C4_WitnessProgress ==
  SpecificReport2 /\ ImprovementLabels = 1 /\ out.verdict = "PROGRESS"

\* the recent mean is over the first min(3, n) values of s, the older mean
\* over the last min(3, n), and below six values the two windows share an
\* entry
Windows(section, s) ==
  Len(s) >= 2 =>
    LET n == Len(s)
        k == IF n < 3 THEN n ELSE 3
    IN  /\ section.present
        /\ MeanIs(section.recent, s, 1, k)
        /\ MeanIs(section.older, s, n - k + 1, n)
        /\ n < 6 => \E i \in 1..k : i >= n - k + 1

\* C5: in CompareRunningSessions, for a list of n defined values, the recent
\* mean is the mean of the first min(3, n) entries and the older mean is the
\* mean of the last min(3, n) entries; for n < 6 the two windows share at
\* least one entry and the shared entry stays in both means.
C5_Windows ==
  CompareReport =>
    /\ Windows(out.pace, out.paces)
    /\ Windows(out.distance, out.distances)
    /\ Windows(out.heart_rate, out.heart_rates)

\* five paces, so the third is in both windows, and the two means differ
C5_Witness ==
  /\ CompareReport
  /\ Len(out.paces) = 5
  /\ out.pace.recent # out.pace.older
  /\ out.paces[1] # out.paces[3] /\ out.paces[3] # out.paces[5]

C5_WitnessFour ==
  /\ CompareReport
  /\ Len(out.distances) = 4
  /\ out.distance.recent # out.distance.older

\* C6: given exactly two running sessions of 10 km each with paces 5:00/km
\* and 4:50/km, CompareRunningSessions reports a pace improvement (label
\* IMPROVEMENT, about 3.3%); more generally, for exactly two runs whose paces
\* differ by more than 2% the pace is not labelled STABLE.
C6_TwoRunsImprove ==
  (CompareReport /\ out.found = 2 /\ Len(out.paces) = 2) =>
    /\ (out.paces = << <<29, 6>>, <<5, 1>> >> /\ out.distances[1] = out.distances[2])
         => out.pace.label = "IMPROVEMENT"
    /\ (\/ ChangeAbove(out.paces[1], out.paces[2], 2)
        \/ ChangeBelow(out.paces[1], out.paces[2], -2))
         => out.pace.label # "STABLE"

\* the older mean is over the last up-to-3 of the entries after the first 3
OlderFromRemaining(section, s) ==
  Len(s) > 3 =>
    MeanIs(section.older, s, IF Len(s) - 2 > 4 THEN Len(s) - 2 ELSE 4, Len(s))

\* C7: in CompareRunningSessions the older window of a metric is drawn from
\* the entries that remain after the first min(3, N) recent entries are set
\* aside (its last up-to-3 entries), so no entry of the recent window is
\* also averaged into the older mean.
C7_OlderDisjoint ==
  CompareReport =>
    /\ OlderFromRemaining(out.pace, out.paces)
    /\ OlderFromRemaining(out.distance, out.distances)
    /\ OlderFromRemaining(out.heart_rate, out.heart_rates)

\* every collected pace is the time over the distance of an analysed run that
\* has a distance, one for each such run, and the pace means are over these
PaceFromDistance ==
  /\ Len(out.paces) = Cardinality({i \in Analysed : HasPace(i)})
  /\ \A k \in DOMAIN out.paces :
       /\ Positive(out.paces[k])
       /\ \E i \in Analysed :
            /\ HasPace(i)
            /\ out.paces[k][1] * 60 * activities[i].distance
                 = out.paces[k][2] * 1000 * activities[i].moving_time
  /\ CompareReport => Windows(out.pace, out.paces)
  /\ RecommendReport =>
       IF out.paces = <<>> THEN out.avg_pace = Zero
       ELSE MeanIs(out.avg_pace, out.paces, 1, Len(out.paces))

C8_WitnessRecommend ==
  /\ RecommendReport
  /\ \E i \in Analysed : ~HasDistance(i)
  /\ Positive(out.avg_pace)

\* C9: in CompareRunningSessions, for each of pace, distance and heart rate,
\* if fewer than 2 of the compared runs have a defined (> 0) value for the
\* metric, the output has no comparison section for it (no means, no percent
\* change, no label) and the metric is not evaluated for the improvement
\* count.
C9_SkippedMetric ==
  CompareReport =>
    /\ Cardinality({i \in Analysed : HasPace(i)}) < 2 => out.pace = NoSection
    /\ Cardinality({i \in Analysed : HasDistance(i)}) < 2
         => out.distance = NoSection
    /\ Cardinality({i \in Analysed : HasHr(i)}) < 2
         => out.heart_rate = NoSection
    /\ out.improvements <= Bit(out.pace.present) + Bit(out.distance.present)
                             + Bit(out.heart_rate.present)

\* one run with a heart rate among runs whose pace is compared
C9_Witness ==
  /\ CompareReport
  /\ Cardinality({i \in Analysed : HasHr(i)}) = 1
  /\ out.pace.present
  /\ ~out.heart_rate.present

C9_WitnessPace ==
  /\ CompareReport
  /\ Cardinality({i \in Analysed : HasPace(i)}) = 1
  /\ out.heart_rate.present
  /\ ~out.pace.present /\ ~out.distance.present

\* the result of a call that found too few runs: the count, and nothing
\* computed
OnlyCount(tool) ==
  out = [Blank EXCEPT !.tool = tool, !.kind = "insufficient",
                      !.found = Cardinality(Analysed),
                      !.num_sessions = out.num_sessions, !.goal = out.goal]

\* C10: when the fetched activities hold fewer runs than the tool requires
\* (fewer than 2 for CompareRunningSessions, fewer than 5 for
\* RecommendTraining, counted after the truncation to num_sessions), the
\* tool returns a message stating how many sessions were found, raises no
\* exception, and does no averaging or division.
C10_TooFewRuns ==
  (pc = "returned" /\ out.kind # "error") =>
    /\ (out.tool = "CompareRunningSessions" /\ Cardinality(Analysed) < 2)
         => OnlyCount("CompareRunningSessions")
    /\ (out.tool = "RecommendTraining" /\ Cardinality(Analysed) < 5)
         => OnlyCount("RecommendTraining")

\* four runs among five activities, a plan asked for
C10_Witness ==
  /\ Returned("RecommendTraining", "insufficient")
  /\ Len(activities) = 5
  /\ out.found = 4

C10_WitnessCompare ==
  /\ Returned("CompareRunningSessions", "insufficient")
  /\ Len(activities) >= 2
  /\ out.found = 1

C10_WitnessNone ==
  /\ Returned("CompareRunningSessions", "insufficient")
  /\ out.found = 0

\* C11: in every percent-change computation of the comparison tools, when
\* the baseline (the older mean, or session 1's value in
\* CompareSpecificRuns) is 0, the percent change is reported as undefined:
\* not as a number such as 0%, not as infinity, and the tool does not fail.
C11_ZeroBaselineUndefined ==
  /\ (CompareReport \/ SpecificReport2) /\ ~Positive(out.distance.older)
       => /\ ~out.distance.present
          /\ out.dist_indicator = "none"
          /\ out.distance.label = "none"
  /\ (CompareReport \/ SpecificReport2) /\ out.pace.present
       => Positive(out.pace.older)
  /\ (CompareReport \/ SpecificReport2) /\ out.heart_rate.present
       => Positive(out.heart_rate.older)

\* the runs of the fetched activities that took place on a date
RunsOn(date) == {i \in RunIndices : activities[i].start_date_local = date}

\* what CompareSpecificRuns returns when a date has no run
OnlyNotFound(date) ==
  out = [Blank EXCEPT !.tool = "CompareSpecificRuns", !.kind = "notfound",
                      !.date = date,
                      !.date1 = out.date1, !.date2 = out.date2]

\* C12: in CompareSpecificRuns, if no fetched Run has a start_date_local
\* whose date part equals date1, the tool returns 'No running session found
\* on {date1}'; otherwise, if none matches date2, the same message for date2;
\* in both cases no comparison table is produced, and when both dates are
\* missing the message names date1.
C12_NotFound ==
  (pc = "returned" /\ out.tool = "CompareSpecificRuns" /\ out.kind # "error") =>
    /\ RunsOn(out.date1) = {} => OnlyNotFound(out.date1)
    /\ (RunsOn(out.date1) # {} /\ RunsOn(out.date2) = {})
         => OnlyNotFound(out.date2)
    /\ (RunsOn(out.date1) # {} /\ RunsOn(out.date2) # {})
         => out.kind = "report"

\* both dates without a run, a ride on the first: the message names date1
C12_Witness ==
  /\ Returned("CompareSpecificRuns", "notfound")
  /\ out.date1 # out.date2
  /\ RunsOn(out.date1) = {} /\ RunsOn(out.date2) = {}
  /\ \E i \in DOMAIN activities :
       activities[i].type = "Ride" /\ activities[i].start_date_local = out.date1
  /\ out.date = out.date1

C12_WitnessSecond ==
  /\ Returned("CompareSpecificRuns", "notfound")
  /\ RunsOn(out.date1) # {} /\ RunsOn(out.date2) = {}
  /\ out.date = out.date2

\* C13: in RecommendTraining the level is a function of the average weekly
\* run count f alone: f < 2 gives beginner, 2 <= f < 4 gives intermediate
\* (so f = 3.5 is intermediate), f >= 4 gives advanced; and the weekly plan
\* emitted is the one of that level.
C13_LevelBuckets ==
  shown.by = "level" =>
    LET f == shown.input.avg_weekly_runs
    IN  /\ (shown.level = "beginner") <=> f[1] < 2 * f[2]
        /\ (shown.level = "intermediate")
             <=> (2 * f[2] <= f[1] /\ f[1] < 4 * f[2])
        /\ (shown.level = "advanced") <=> f[1] >= 4 * f[2]
        /\ f = <<7, 2>> => shown.level = "intermediate"
        /\ shown.plan.week =
             IF f[1] < 2 * f[2] THEN "3-4 days"
             ELSE IF f[1] < 4 * f[2] THEN "4-5 days" ELSE "5-6 days"

\* 3.5 runs a week: intermediate, with the plan of 4-5 days
C13_Witness ==
  /\ shown.by = "level"
  /\ shown.input.avg_weekly_runs = <<7, 2>>
  /\ shown.level = "intermediate"
  /\ shown.plan.week = "4-5 days"

\* further cases of C13 that are reached: the two bounds themselves
C13_WitnessTwo ==
  /\ shown.by = "level" /\ shown.input.avg_weekly_runs = <<2, 1>>
  /\ shown.level = "intermediate"

C13_WitnessFour ==
  /\ shown.by = "level" /\ shown.input.avg_weekly_runs = <<4, 1>>
  /\ shown.level = "advanced"

\* days of the year before each month (no leap year; the dates are of 2026)
DaysBefore == <<0, 31, 59, 90, 120, 151, 181, 212, 243, 273, 304, 334>>

\* the calendar week of a date of 2026, weeks running Monday to Sunday and
\* counted from Monday 2025-12-29 (2026-01-01 is a Thursday)
CalendarWeek(date) == (DaysBefore[date.m] + date.d + 2) \div 7

\* C14: the frequency RecommendTraining feeds into the level bucket is the
\* average number of running sessions per calendar week: the analysed runs
\* are grouped by the week they fall in and the mean group size is taken, so
\* runs in different weeks of the same month fall into different groups.
C14_WeeklyGroups ==
  RecommendReport =>
    LET groups == {CalendarWeek(activities[i].start_date_local) : i \in Analysed}
    IN  /\ Cardinality(out.weeks) = Cardinality(groups)
        /\ out.avg_weekly_runs[1] * Cardinality(groups)
             = out.avg_weekly_runs[2] * Cardinality(Analysed)

\* the last fetched run of a date: the session CompareSpecificRuns compares
SessionOn(date) ==
  activities[CHOOSE i \in RunsOn(date) : \A j \in RunsOn(date) : j <= i]

C15_WitnessDecline ==
  /\ SpecificReport2
  /\ RLt(out.speed_change, Zero) /\ RGt(out.speed_change, Whole(-2))
  /\ out.speed_indicator = "warning"

\* a tool's _run or SimpleStravaAgent.run is under way or has ended
Guarded == call.tool \in Tools \cup {"SimpleStravaAgent.run"}

\* C16: for every Strava tool's _run and for SimpleStravaAgent.run, if the
\* token refresh or the API request fails (network error, authentication
\* error, any 4xx or 5xx status), the call returns a formatted error string
\* as its normal result and never raises to its caller, and the handling is
\* the same whatever the status code.
C16_ErrorsReturned ==
  Guarded =>
    /\ ~call.raised
    /\ call.at = "done" =>
         /\ call.failure # "none" => (call.result = "error" /\ call.e = call.failure)
         /\ call.failure = "none" => (call.result = "text" /\ call.e = "none")
    /\ call.result = "error" => call.failure # "none"

\* a tool whose data request met a server error returned the error text
C16_Witness ==
  /\ call.tool \in Tools /\ call.at = "done"
  /\ call.gets = 1 /\ call.failure = "500"
  /\ call.result = "error" /\ ~call.raised

\* a tool whose token refresh was refused returned the error text
C16_WitnessRefresh ==
  /\ call.tool \in Tools /\ call.at = "done"
  /\ call.posts = 1 /\ call.gets = 0 /\ call.failure = "401"
  /\ call.result = "error" /\ ~call.raised

\* SimpleStravaAgent.run whose second request failed returned the error text
C16_WitnessRun ==
  /\ call.tool = "SimpleStravaAgent.run" /\ call.at = "done"
  /\ call.query = "stats" /\ call.gets = 2 /\ call.failure = "Timeout"
  /\ call.result = "error" /\ ~call.raised

\* C17: within one tool invocation no upstream request is retried: the token
\* endpoint is called at most once and the data endpoint at most once, and
\* after a failed request the invocation ends with the error string without
\* issuing any further request (in particular without refreshing the token
\* and repeating the call).
C17_NoRetry ==
  /\ [](call.tool \in Tools => (call.posts <= 1 /\ call.gets <= 1))
  /\ [][(Guarded /\ call.failure # "none") =>
          \/ /\ call.at = "except"
             /\ call' = [call EXCEPT !.at = "done", !.result = "error",
                                     !.e = call.failure]
          \/ /\ call.at = "done" /\ call.result = "error"
             /\ call' = NoCall
          \/ UNCHANGED call]_vars

\* a tool that refreshed the token and whose one data request was refused
\* has ended with the error text
C17_Witness ==
  /\ call.tool \in Tools /\ call.at = "done"
  /\ call.posts = 1 /\ call.gets = 1 /\ call.failure = "401"
  /\ call.result = "error"

\* the optional fields of an activity that the outputs show
OptionalFields ==
  {"average_heartrate", "max_heartrate", "average_speed", "average_watts"}

\* the activity has the field
Present(activity, field) ==
  CASE field = "average_heartrate" -> activity.average_heartrate # 0
    [] field = "max_heartrate" -> activity.max_heartrate # 0
    [] field = "average_speed" -> activity.average_speed # Zero
    [] field = "average_watts" -> activity.average_watts # 0
    [] OTHER -> TRUE

\* the activity a line of the output is about
ShownActivity(line) ==
  IF line.session = 1 THEN shown.input.activity ELSE shown.input.other

\* the output of one of the tools or of the formatter
ShownLines == shown.by \notin {"none", "level"}

\* C18: when an activity lacks an optional field (average heart rate, max
\* heart rate, average speed, power), every tool output omits the row, line
\* or cell that would show it; no output ever shows a zero standing in for
\* the missing value.
C18_MissingOmitted ==
  ShownLines =>
    \A k \in DOMAIN shown.lines :
      shown.lines[k].field \in OptionalFields =>
        /\ Present(ShownActivity(shown.lines[k]), shown.lines[k].field)
        /\ shown.lines[k].text = "number"
        /\ shown.lines[k].value # Zero

\* the image lines of the output
ImageLines == {k \in DOMAIN shown.lines : shown.lines[k].text = "image"}

\* an activity has been formatted with its map
MapShown == shown.by \in {"GetActivityById", "format_activity_with_map"}

\* C19: formatting an activity that has a non-empty polyline while a Google
\* Maps key is configured emits exactly one image line whose url carries the
\* polyline as the encoded path parameter; with no Google Maps key (also
\* when only a Mapbox token is set) or with an empty polyline, no image line
\* is emitted and the formatting still succeeds.
C19_MapImage ==
  MapShown =>
    IF shown.input.activity.polyline # "" /\ shown.input.google_maps_key # ""
    THEN /\ Cardinality(ImageLines) = 1
         /\ \A k \in ImageLines :
              /\ shown.lines[k].url.path = shown.input.activity.polyline
              /\ shown.lines[k].url.key = shown.input.google_maps_key
    ELSE /\ ImageLines = {}
         /\ \E k \in DOMAIN shown.lines : shown.lines[k].label = "Distance"

\* a route drawn through the Google Maps key
C19_Witness ==
  /\ shown.by = "format_activity_with_map"
  /\ shown.input.activity.polyline # "" /\ shown.input.google_maps_key # ""
  /\ Cardinality(ImageLines) = 1

\* only a Mapbox token is set: an activity with a route is formatted
\* without an image
C19_WitnessMapbox ==
  /\ shown.by = "format_activity_with_map"
  /\ shown.input.activity.polyline # ""
  /\ shown.input.google_maps_key = "" /\ shown.input.mapbox_token # ""
  /\ ImageLines = {} /\ Len(shown.lines) >= 2

\* GetActivityById with a route and a key
C19_WitnessById ==
  /\ shown.by = "GetActivityById"
  /\ shown.input.activity.polyline # "" /\ shown.input.google_maps_key # ""
  /\ Cardinality(ImageLines) = 1

\* the position in the fetched activities of the k-th run
NthRun(k) ==
  CHOOSE i \in RunIndices : Cardinality({j \in RunIndices : j <= i}) = k

\* the runs in the order of the response, cut to the first num_sessions
FirstRuns ==
  [k \in 1..Min(out.num_sessions, Cardinality(RunIndices)) |->
     activities[NthRun(k)]]

\* CompareRunningSessions or RecommendTraining has returned without error
AnalysisReturned ==
  /\ pc = "returned"
  /\ out.tool \in {"CompareRunningSessions", "RecommendTraining"}
  /\ out.kind \in {"report", "insufficient"}

\* C20: the list of runs that CompareRunningSessions and RecommendTraining
\* analyse is exactly the subsequence of the fetched activities whose type
\* is 'Run', in the order the API returned them, cut to the first
\* num_sessions entries: no activity of another type is included and the
\* order is never changed.
C20_RunsInOrder ==
  AnalysisReturned =>
    /\ out.found = Len(FirstRuns)
    /\ out.kind = "report" =>
         /\ out.distances =
              SelectSeq([k \in DOMAIN FirstRuns |-> distance_km(FirstRuns[k])],
                        Positive)
         /\ out.heart_rates =
              SelectSeq([k \in DOMAIN FirstRuns |-> avg_hr(FirstRuns[k])],
                        Positive)
         /\ Len(out.paces) =
              Cardinality({k \in DOMAIN FirstRuns : FirstRuns[k].distance > 0})

\* a ride lies before the runs and there are more runs than asked for: the
\* report covers the first num_sessions runs
C20_Witness ==
  /\ CompareReport
  /\ activities[1].type = "Ride"
  /\ Cardinality(RunIndices) > out.num_sessions
  /\ out.found = out.num_sessions
  /\ Len(out.distances) = out.num_sessions
  /\ out.distances[1] # out.distances[2]

\* RecommendTraining over runs whose distances neither rise nor fall
C20_WitnessRecommend ==
  /\ RecommendReport
  /\ Len(out.distances) = 5
  /\ RLt(out.distances[1], out.distances[2])
  /\ RGt(out.distances[2], out.distances[3])

\* the invocation that has returned and the one kept had the same input
SameInput ==
  /\ earlier.out.tool = out.tool
  /\ earlier.out.num_sessions = out.num_sessions
  /\ earlier.out.goal = out.goal
  /\ earlier.out.date1 = out.date1
  /\ earlier.out.date2 = out.date2

C21_WitnessFew ==
  /\ pc = "returned" /\ out.kind = "insufficient" /\ SameInput
  /\ earlier.call.posts = 0 /\ call.posts = 1
  /\ out = earlier.out

\* C22: after any sequence of calls, StravaAuth.get_token returns an access
\* token that is valid at the time of the call, refreshing it whenever that
\* is necessary: when the cached token has stopped being valid, a refresh is
\* performed before a token is returned, not only when no token was ever
\* obtained.
C22_ValidToken ==
  /\ call.tool \in Tools => call.bearer # "stale"
  /\ (call.tool \in Tools /\ call.at = "request") => ~access_token.expired

C28_WitnessHeld ==
  /\ call.tool \in Tools /\ call.at = "done"
  /\ call.posts = 0 /\ call.gets = 1 /\ call.result = "text"
  /\ access_token.StravaAuth = Token

\* C29: every construction StravaAuth() made while any of STRAVA_CLIENT_ID,
\* STRAVA_CLIENT_SECRET or STRAVA_REFRESH_TOKEN is missing raises
\* ValueError, on the first attempt and on every later attempt; no caller
\* ever obtains a StravaAuth instance whose credentials are incomplete.
C29_AlwaysRaises ==
  /\ (auth.last # "none" /\ auth.missing) => auth.last = "ValueError"
  /\ auth.last = "returned" => Complete(auth)

\* the first min(3, N) of the N filtered runs
HeadRuns == SubSeq(FirstRuns, 1, Min(3, Len(FirstRuns)))

\* the heart rates, and the paces, that are defined among those runs
HeadHeartRates ==
  SelectSeq([k \in DOMAIN HeadRuns |-> avg_hr(HeadRuns[k])], Positive)

HeadPaces ==
  SelectSeq([k \in DOMAIN HeadRuns |-> pace_min_km(HeadRuns[k])], Positive)

\* C23: in CompareRunningSessions the recent and older windows are positions
\* in the filtered run list, and a metric's window mean is taken over those
\* runs of the window that have the metric defined: the recent heart-rate
\* (or pace) mean never uses a run beyond the first min(3, N) filtered runs,
\* even when some of those first runs lack the metric.
C23_WindowsByPosition ==
  CompareReport =>
    /\ (out.heart_rate.present /\ HeadHeartRates # <<>>) =>
         MeanIs(out.heart_rate.recent, HeadHeartRates, 1, Len(HeadHeartRates))
    /\ (out.pace.present /\ HeadPaces # <<>>) =>
         MeanIs(out.pace.recent, HeadPaces, 1, Len(HeadPaces))

\* a metric with two or three values: both means are over all of them, the
\* change is 0 and the label says so
SameWindows(section, s, stable) ==
  Len(s) \in {2, 3} =>
    /\ section.present
    /\ MeanIs(section.recent, s, 1, Len(s))
    /\ MeanIs(section.older, s, 1, Len(s))
    /\ section.change = Zero
    /\ section.label = stable

\* C25: in CompareRunningSessions, whenever a metric has 2 or 3 defined
\* values, its recent window and older window are the same set of values, so
\* its percent change is exactly 0 and it is labelled STABLE whatever the
\* values are; consequently any comparison of at most 3 runs ends with the
\* STAY CONSISTENT verdict.
C25_SmallListsStable ==
  CompareReport =>
    /\ SameWindows(out.pace, out.paces, "STABLE")
    /\ SameWindows(out.distance, out.distances, "STABLE")
    /\ SameWindows(out.heart_rate, out.heart_rates, "STABLE")
    /\ out.found <= 3 => (out.improvements = 0 /\ out.verdict = "STAY CONSISTENT")

\* three runs whose paces, distances and heart rates all differ
C25_Witness ==
  /\ CompareReport /\ out.found = 3
  /\ Len(out.paces) = 3 /\ Len(out.heart_rates) = 3
  /\ ChangeBelow(out.paces[1], out.paces[3], -2)
  /\ out.distances[1] # out.distances[3]
  /\ out.heart_rates[1] # out.heart_rates[3]
  /\ out.pace.label = "STABLE" /\ out.verdict = "STAY CONSISTENT"

\* four runs of which two have a heart rate
C25_WitnessTwo ==
  /\ CompareReport /\ out.found = 4
  /\ Len(out.heart_rates) = 2
  /\ out.heart_rates[1] # out.heart_rates[2]
  /\ out.heart_rate.label = "STABLE"

\* the sections of a comparison that are present
PresentSections ==
  {x \in {out.pace, out.distance, out.heart_rate} : x.present}

\* C26: for every activity list whose distance, moving_time, average_speed
\* and average_heartrate values are present and non-negative, no division by
\* zero is reachable in CompareRunningSessions or RecommendTraining: every
\* divisor (older mean of a metric, count of values in a window, number of
\* runs, number of frequency groups, per-run distance) is strictly positive
\* at the point where it is used.
C26_NoZeroDivisor ==
  (pc = "returned" /\ out.tool \in {"CompareRunningSessions", "RecommendTraining"}) =>
    /\ out.e # "ZeroDivisionError"
    /\ \A d \in out.divisors : Positive(d)
    /\ CompareReport =>
         \A x \in PresentSections : Positive(x.older) /\ x.older \in out.divisors
    /\ RecommendReport =>
         /\ out.found > 0 /\ Whole(out.found) \in out.divisors
         /\ out.weeks # {} /\ Whole(Cardinality(out.weeks)) \in out.divisors
    /\ (out.kind = "report" /\ \E i \in Analysed : activities[i].distance > 0) =>
         \E i \in Analysed :
           activities[i].distance > 0 /\ Norm(activities[i].distance, 1000) \in out.divisors

\* a comparison over runs of which one has no distance and one no heart rate
C26_Witness ==
  /\ CompareReport
  /\ \E i \in Analysed : activities[i].distance = 0
  /\ \E i \in Analysed : activities[i].average_heartrate = 0
  /\ PresentSections # {}
  /\ Cardinality(out.divisors) >= 4

\* a recommendation over runs of which one has no distance
C26_WitnessRecommend ==
  /\ RecommendReport
  /\ \E i \in Analysed : activities[i].distance = 0
  /\ Whole(5) \in out.divisors

\* the mark a label of the detailed analysis stands for
MarkOf(label) ==
  IF label \in {"IMPROVEMENT", "INCREASE"} THEN "improved"
  ELSE IF label \in {"DECLINE", "REDUCTION"} THEN "warning"
  ELSE "same"

\* the heart-rate analysis names a rising heart rate INCREASE
HrMarkOf(label) ==
  IF label = "IMPROVEMENT" THEN "improved"
  ELSE IF label = "INCREASE" THEN "warning"
  ELSE "same"

\* C30: in CompareSpecificRuns the comparison table and the detailed analysis
\* always agree on a metric: the row of distance, pace or heart rate carries
\* the improvement indicator exactly when the analysis labels the metric as
\* improvement, and the warning indicator exactly when it labels decline.
C30_TableAgrees ==
  SpecificReport2 =>
    /\ out.dist_indicator = MarkOf(out.distance.label)
    /\ out.pace.present => out.pace_indicator = MarkOf(out.pace.label)
    /\ out.heart_rate.present => out.hr_indicator = HrMarkOf(out.heart_rate.label)

-----------------------------------------------------------------------------
(* strava_a2a_agent: one invocation of the A2A endpoint. It is an async     *)
(* generator; turn.at is the await it is suspended at. Storing the incoming *)
(* message, loading the history and creating the agent happen before "try"; *)
(* the run, the yield of the answer and the storing of the answer are       *)
(* inside it; "except Exception" yields an error message and stores it.     *)
(* A text is modelled by the Markdown images it holds and by whether the    *)
(* two characters "![" occur in it.                                         *)

\* Most messages the session history holds in the model.
MaxStored == 4

\* Most tool outputs of one run in the model.
MaxOutputs == 2

\* (alt, url) of the images a tool can return
Images == {<<"Route Map", "https://maps.googleapis.com/1">>, <<"Route Map", "https://maps.googleapis.com/2">>}

\* f'![{alt}]({url})'
Markdown(image) == <<"![", image[1], "](", image[2], ")">>

\* a text: the images written in it, and whether "![" occurs in it
Text(images, marker) ==
  [images |-> {Markdown(i) : i \in images}, marker |-> marker \/ images # {}]

Texts == {Text(images, marker) : images \in SUBSET Images, marker \in BOOLEAN}

\* re.findall(r'!\[([^\]]*)\]\(([^\)]+)\)', output): the (alt, url) pairs
findall(output) == {<<m[2], m[4]>> : m \in output.images}

\* images_found over all tool outputs
ImagesFound(tool_outputs) ==
  UNION {findall(tool_outputs[k]) : k \in DOMAIN tool_outputs}

\* if images_found and '![' not in final_answer: prepend them
FinalAnswer(images_found, final_answer) ==
  IF images_found # {} /\ ~final_answer.marker
  THEN [images |-> {Markdown(i) : i \in images_found} \cup final_answer.images,
        marker |-> TRUE]
  ELSE final_answer

\* AgentMessage(text=final_answer)
AgentMessage(kind, text) == [kind |-> kind, text |-> text]

\* error_message: no image in it
ErrorMessage == AgentMessage("error", Text({}, FALSE))

Around == <<activities, pc, out, access_token, call, shown, earlier, auth>>

\* an exception that leaves the generator
Propagated(step) == [turn EXCEPT !.at = "raised", !.raised = step]

\* the "except Exception" block up to "yield error_msg"
Excepted(t) ==
  [t EXCEPT !.at = "store_error", !.yielded = Append(t.yielded, ErrorMessage)]

\* the endpoint is called with a message
Receive ==
  /\ turn.at = "idle"
  /\ turn' = [turn EXCEPT !.at = "store_input"]
  /\ UNCHANGED Around

\* await context.store(input)
StoreInput ==
  /\ turn.at = "store_input"
  /\ \/ turn' = [turn EXCEPT !.at = "load_history",
                              !.stored = Append(@, "input")]
     \/ turn' = Propagated("store_input")
  /\ UNCHANGED Around

\* history = [msg async for msg in context.load_history() ...]
LoadHistory ==
  /\ turn.at = "load_history"
  /\ \/ turn' = [turn EXCEPT !.at = "create"]
     \/ turn' = Propagated("load_history")
  /\ UNCHANGED Around

\* agent = create_strava_agent()
CreateAgent ==
  /\ turn.at = "create"
  /\ \/ turn' = [turn EXCEPT !.at = "run"]
     \/ turn' = Propagated("create")
  /\ UNCHANGED Around

\* response = await agent.run(user_query), up to "yield agent_msg"; a run
\* that raises goes to the "except" block
RunAgent ==
  /\ turn.at = "run"
  /\ \/ \E tool_outputs \in SeqsUpTo(Texts, MaxOutputs), final_answer \in Texts :
          turn' = [turn EXCEPT
                     !.at = "store_reply",
                     !.tool_outputs = tool_outputs,
                     !.images_found = ImagesFound(tool_outputs),
                     !.yielded = Append(@, AgentMessage("answer",
                                   FinalAnswer(ImagesFound(tool_outputs), final_answer)))]
     \/ turn' = Excepted(turn)
  /\ UNCHANGED Around

\* await context.store(agent_msg), inside "try"
StoreReply ==
  /\ turn.at = "store_reply"
  /\ \/ turn' = [turn EXCEPT !.at = "done", !.stored = Append(@, "answer")]
     \/ turn' = Excepted(turn)
  /\ UNCHANGED Around

\* await context.store(error_msg), inside "except"
StoreError ==
  /\ turn.at = "store_error"
  /\ \/ turn' = [turn EXCEPT !.at = "done", !.stored = Append(@, "error")]
     \/ turn' = Propagated("store_error")
  /\ UNCHANGED Around

\* the next message of the session: the history stays
NextMessage ==
  /\ turn.at \in {"done", "raised"}
  /\ Len(turn.stored) < MaxStored
  /\ turn' = [NoTurn EXCEPT !.stored = turn.stored]
  /\ UNCHANGED Around

InitAgent ==
  /\ activities = <<>>
  /\ pc = "idle"
  /\ out = Blank
  /\ access_token = NoTokens
  /\ call = NoCall
  /\ shown = NoShown
  /\ earlier = NoEarlier
  /\ auth = NoAuth
  /\ turn = NoTurn

NextAgent ==
  \/ Receive
  \/ StoreInput
  \/ LoadHistory
  \/ CreateAgent
  \/ RunAgent
  \/ StoreReply
  \/ StoreError
  \/ NextMessage

SpecAgent == InitAgent /\ [][NextAgent]_vars

\* the invocation has ended: the generator returned or raised
TurnEnded == turn.at \in {"done", "raised"}

\* the messages of one kind the invocation has yielded so far
YieldedOf(kind) == {k \in DOMAIN turn.yielded : turn.yielded[k].kind = kind}

\* C24: in strava_a2a_agent every Markdown image that occurs in any tool
\* output of the run also occurs in the final answer sent to the user, also
\* when the LLM's answer kept some images and dropped others.
C24_ImagesPreserved ==
  \A k \in YieldedOf("answer") :
    \A j \in DOMAIN turn.tool_outputs :
      turn.tool_outputs[j].images \subseteq turn.yielded[k].text.images

\* C27: every invocation of strava_a2a_agent yields exactly one AgentMessage,
\* the final answer or an error message and never both, whatever step fails:
\* storing the incoming message, creating the agent, running it, or storing
\* the reply after it was yielded.
C27_OneMessage ==
  TurnEnded =>
    /\ Len(turn.yielded) = 1
    /\ Cardinality(YieldedOf("answer")) + Cardinality(YieldedOf("error")) = 1

====
